---- MODULE Spec2Model ----
(***************************************************************************)
(* Model of the event-index migration of the state keeper                  *)
(* (core/lib/zksync_core/src/state_keeper/io/event_indexes_migration.rs)   *)
(* and of the identifier types it works on                                 *)
(* (core/lib/basic_types/src/lib.rs).                                      *)
(*                                                                         *)
(* One run of migrate_miniblocks_inner is a sequence of steps, one per     *)
(* await point or statement group of the loop body; `pc` is the position   *)
(* of the task.  The storage is the set of existing miniblocks together    *)
(* with the set of miniblocks whose events still lack the indexes.         *)
(***************************************************************************)
EXTENDS Integers, FiniteSets, Sequences, TLC

\* ------------------------------------------------------------------ bounds
\* Largest value of the block-number type; stands for u32::MAX.
MaxId == 4
\* The per-run call counters stop counting here.
CountCap == 3
\* Width of a "safe integer"; stands for the 53 of L2ChainId::MAX.
SafeIntBits == 10
\* Longest string handed to the chain-id parsers.
MaxLen == 3

\* --------------------------------------------------------------- constants
\* Events stored per miniblock by the test fixture (store_events).
RowsPerBlock == 7
\* Default for L2ChainId.
DefaultChainId == 270

Ids == 0..MaxId

VARIABLES
    numBlocks,          \* miniblocks 0..numBlocks-1 exist in storage
    unmig,              \* miniblocks whose events lack the new indexes
    overflow_policy,    \* what Add/Sub of the block number do on overflow
    stop,               \* current value of the watch channel (stop signal)
    pc,                 \* position of the migration task
    last_miniblock,     \* argument of the current run
    chunk_size,         \* argument of the current run
    chunk_start,        \* local
    chunk_end,          \* local
    is_chunk_migrated,  \* local
    events_affected,    \* local accumulator
    storage,            \* TRUE while the task holds a storage connection
    result,             \* what the run returned to its caller
    stopAtStart,        \* value of the stop signal when the run started
    startUnmig,         \* unmig when the run started
    startBlocks,        \* numBlocks when the run started
    nFail,              \* storage operations that failed in the run (capped)
    nProbe,             \* probes issued by the run (capped)
    nBackfill,          \* backfills issued by the run (capped)
    nSleep,             \* sleeps of the run (capped)
    nCheck,             \* reads of the stop signal by the run (capped)
    nAfterStop,         \* windows the run began while the signal was set (capped)
    maxEnd,             \* largest chunk_end handed to the storage by the run
    firstWindow,        \* first window handed to the probe by the run
    prev,               \* summary of the previous run
    chain_call,         \* last construction of an L2ChainId: path and input
    chain_id            \* what that construction gave

vars == <<numBlocks, unmig, overflow_policy, stop, pc,
          last_miniblock, chunk_size, chunk_start, chunk_end,
          is_chunk_migrated, events_affected, storage, result,
          stopAtStart, startUnmig, startBlocks, nFail, nProbe, nBackfill, nSleep, nCheck,
          maxEnd, firstWindow, prev, chain_call, chain_id, nAfterStop>>

storageVars == <<numBlocks, unmig>>
chainVars == <<chain_call, chain_id>>
paramVars == <<overflow_policy, last_miniblock, chunk_size, stopAtStart,
               startUnmig, startBlocks, prev, chainVars>>
migrationVars == <<numBlocks, unmig, overflow_policy, stop, pc,
                   last_miniblock, chunk_size, chunk_start, chunk_end,
                   is_chunk_migrated, events_affected, storage, result,
                   stopAtStart, startUnmig, startBlocks, nFail, nProbe,
                   nBackfill, nSleep, nCheck, maxEnd, firstWindow, prev,
                   nAfterStop>>
countVars == <<nProbe, nBackfill, nSleep, nCheck, maxEnd, firstWindow>>

Inc(n) == IF n < CountCap THEN n + 1 ELSE n

Min(a, b) == IF a <= b THEN a ELSE b
Max(a, b) == IF a >= b THEN a ELSE b

\* ------------------------------------------------- block-number arithmetic
\* MiniblockNumber + u32 and MiniblockNumber - u32.  A result outside the
\* range of the type is either clamped or makes the operation fail,
\* depending on the overflow policy of the build.
NoValue == -1

AddId(a, b) ==
    IF a + b <= MaxId THEN a + b
    ELSE IF overflow_policy = "saturate" THEN MaxId ELSE NoValue

SubId(a, b) ==
    IF a = NoValue THEN NoValue
    ELSE IF a - b >= 0 THEN a - b
    ELSE IF overflow_policy = "saturate" THEN 0 ELSE NoValue

\* (mutation of ChunkEnd: the window is not clamped to last_miniblock)
ChunkEndUnclamped(start, size, last) == SubId(AddId(start, size), 1)

\* Line 53: last_miniblock.min(chunk_start + chunk_size - 1)
ChunkEnd(start, size, last) ==
    LET e == SubId(AddId(start, size), 1)
    IN  IF e = NoValue THEN NoValue ELSE Min(last, e)

\* ------------------------------------------------------------ L2ChainId
\* A string is a sequence of characters; a character is its value as a hex
\* digit (0..9, a..f = 10..15), and 16 is a character that is no hex digit.
Chars == 0..16
StringsOfLength(n) == [1..n -> Chars]

\* U256 values that From<u64> and the public field can be given.
RawValues == 0..(2^(SafeIntBits + 1) - 1)

\* Value of the digits of s in radix r; NoValue if a character is no digit
\* of that radix.
RECURSIVE FromRadix(_, _)
FromRadix(s, r) ==
    IF s = <<>> THEN 0
    ELSE LET h == FromRadix(SubSeq(s, 1, Len(s) - 1), r)
             d == s[Len(s)]
         IN  IF h = NoValue \/ d >= r THEN NoValue ELSE h * r + d

\* U256::from_dec_str(s)
FromDecStr(s) == FromRadix(s, 10)

\* s.parse::<U256>()
FromHexStr(s) == FromRadix(s, 16)

\* Lines 114-120 (and 96-102): decimal first, hexadecimal if that fails.
ParseU256(s) ==
    LET d == FromDecStr(s)
    IN  IF d # NoValue THEN d ELSE FromHexStr(s)

\* Line 137: ((1 << 53) - 1 - 36) / 2
L2ChainIdMax == ((2^SafeIntBits) - 1 - 36) \div 2

Call(op, is_string, text, raw) ==
    [op |-> op, is_string |-> is_string, text |-> text, raw |-> raw]
NoCall == Call("none", FALSE, <<>>, NoValue)
NoChainId == [kind |-> "None", value |-> NoValue]
\* Ok(L2ChainId(u256))
OkChainId(u) == [kind |-> "Ok", value |-> u]
\* Err(..) returned by `?`
ErrChainId == [kind |-> "Err", value |-> NoValue]
\* the assert! of lines 121-125 (and 103-107) fails: the thread panics
PanicChainId == [kind |-> "Panic", value |-> NoValue]

\* Lines 121-126: assert!(u256 <= L2ChainId::MAX.into(), ..); Ok(L2ChainId(u256))
Validated(u) == IF u <= L2ChainIdMax THEN OkChainId(u) ELSE PanicChainId

\* Lines 113-127: the body shared by from_str and deserialize.
ParseChainId(s) ==
    LET u == ParseU256(s)
    IN  IF u = NoValue THEN ErrChainId ELSE Validated(u)

\* --------------------------------------------------------- storage (DAL)
Window(s, e) == {b \in Ids : s <= b /\ b <= e}

\* events_dal().are_event_indexes_migrated(range)
AreEventIndexesMigrated(u, s, e) == Window(s, e) \cap u = {}

\* events_dal().assign_indexes_without_eth_transfer(range): rows affected
RowsAffected(u, s, e) == RowsPerBlock * Cardinality(Window(s, e) \cap u)

\* events_dal().assign_indexes_without_eth_transfer(range): storage after it
AssignIndexes(u, s, e) == u \ Window(s, e)

\* --------------------------------------- decisions of the loop (lines 42-87)
\* (mutation of ConfigValid: the check is missing)
ConfigAlwaysValid(size) == TRUE

\* Line 42: anyhow::ensure!(chunk_size > 0, ..)
ConfigValid(size) == size > 0

\* (mutation of LoopCondition: strict comparison)
LoopConditionStrict(start, last) == start < last

\* Line 52: while chunk_start <= last_miniblock
LoopCondition(start, last) == start <= last

\* (mutation of AfterProbe: the branches are swapped)
AfterProbeInverted(migrated) == IF migrated THEN "backfill" ELSE "drop"

\* Lines 59-61: skip the window or migrate it
AfterProbe(migrated) == IF migrated THEN "drop" ELSE "backfill"

\* (mutation of Accumulate: assignment instead of +=)
AccumulateOverwrite(total, rows) == rows

\* Line 72: events_affected += rows_affected
Accumulate(total, rows) == total + rows

\* (mutation of StopRequested: the signal is ignored)
StopNeverRequested(signal) == FALSE

\* Line 76: if *stop_receiver.borrow()
StopRequested(signal) == signal

\* (mutation of NextChunkStart: one block is skipped)
NextChunkStartSkipping(end) == AddId(end, 2)

\* Line 80: chunk_start = chunk_end + 1
NextChunkStart(end) == AddId(end, 1)

\* (mutation of AfterAdvance: the sleep is unconditional)
AfterAdvanceAlwaysSleep(migrated) == "sleep"

\* Lines 82-84: sleep only after a window that was migrated by this run
AfterAdvance(migrated) == IF migrated THEN "loop" ELSE "sleep"

\* (mutation of OnStorageError: the error is swallowed)
OnStorageErrorSwallowed == "drop"

\* The `?` of lines 56, 57 and 70: the error is returned to the caller
OnStorageError == "failed"

\* (mutation of ConnectionAfterDrop: the connection is kept)
ConnectionKept == TRUE

\* Line 74: drop(storage) returns the connection to the pool
ConnectionAfterDrop == FALSE

\* ----------------------------------------------------------------- results
NoResult == [kind |-> "None", events_affected |-> 0, window |-> <<>>]
OkResult(n) == [kind |-> "Ok", events_affected |-> n, window |-> <<>>]
ErrResult(what, w) ==
    [kind |-> what, events_affected |-> NoValue, window |-> w]

\* (mutation of CancelledOutput: a default output is returned)
CancelledOutputDefault(n) == OkResult(0)

\* Line 78: return Ok(MigrationOutput { events_affected })
CancelledOutput(n) == OkResult(n)

\* Line 87: Ok(MigrationOutput { events_affected })
CompletedOutput(n) == OkResult(n)

NoPrev == [outcome |-> "None", last_miniblock |-> 0, chunk_size |-> 0,
           stopAtStart |-> FALSE, events_affected |-> 0, pending |-> 0,
           blocks |-> 0]

\* Rows of the blocks of [0, last] that lack indexes in the storage u.
PendingRows(u, last) == RowsPerBlock * Cardinality(Window(0, last) \cap u)

\* ------------------------------------------------------------------- Init
InitMigration ==
    /\ numBlocks \in 0..(MaxId + 1)
    /\ unmig \in SUBSET (0..(numBlocks - 1))
    /\ overflow_policy \in {"saturate", "fail"}
    /\ stop = FALSE
    /\ pc = "idle"
    /\ last_miniblock = 0
    /\ chunk_size = 0
    /\ chunk_start = 0
    /\ chunk_end = 0
    /\ is_chunk_migrated = FALSE
    /\ events_affected = 0
    /\ storage = FALSE
    /\ result = NoResult
    /\ stopAtStart = FALSE
    /\ startUnmig = {}
    /\ startBlocks = 0
    /\ nFail = 0
    /\ nProbe = 0
    /\ nBackfill = 0
    /\ nSleep = 0
    /\ nCheck = 0
    /\ nAfterStop = 0
    /\ maxEnd = -1
    /\ firstWindow = <<>>
    /\ prev = NoPrev

\* No L2ChainId is being constructed.
Init ==
    /\ InitMigration
    /\ chain_call = NoCall
    /\ chain_id = NoChainId

\* How the run that is ending now is remembered by the next one.
Outcome ==
    CASE pc = "completed" -> "Completed"
      [] pc = "cancelled" -> "Cancelled"
      [] pc = "failed"    -> "Failed"
      [] pc = "rejected"  -> "InvalidConfig"
      [] pc = "panicked"  -> "Panicked"
      [] OTHER            -> "None"

Terminal == pc \in {"completed", "cancelled", "failed", "rejected", "panicked"}

\* ---------------------------------------------------------------- actions
\* What the next run remembers of the run that has just ended.
Summary ==
    [outcome |-> Outcome, last_miniblock |-> last_miniblock,
     chunk_size |-> chunk_size, stopAtStart |-> stopAtStart,
     events_affected |-> result.events_affected,
     pending |-> PendingRows(startUnmig, last_miniblock),
     blocks |-> startBlocks]

\* The caller invokes migrate_miniblocks_inner(pool, last, size, _, rx) with
\* a channel whose current value is s; lines 42-50.  last is an existing
\* miniblock; p is what is remembered of the previous run.
Invoke(last, size, s, p) ==
    /\ last < numBlocks
    /\ prev' = p
    /\ last_miniblock' = last
    /\ chunk_size' = size
    /\ stop' = s
    /\ stopAtStart' = s
    /\ startUnmig' = unmig
    /\ startBlocks' = numBlocks
    /\ nFail' = 0
    /\ chunk_start' = 0
    /\ chunk_end' = 0
    /\ is_chunk_migrated' = FALSE
    /\ events_affected' = 0
    /\ storage' = FALSE
    /\ nProbe' = 0 /\ nBackfill' = 0 /\ nSleep' = 0 /\ nCheck' = 0
    /\ nAfterStop' = 0
    /\ maxEnd' = -1
    /\ firstWindow' = <<>>
    /\ IF ConfigValid(size)
       THEN /\ pc' = "loop"
            /\ result' = NoResult
       ELSE /\ pc' = "rejected"
            /\ result' = ErrResult("InvalidConfig", <<>>)
    /\ UNCHANGED <<storageVars, overflow_policy, chainVars>>

\* A run is started, whatever ran before.
Start(last, size, s) ==
    /\ pc = "idle" \/ Terminal
    /\ Invoke(last, size, s, NoPrev)

\* The very first run over a storage.
FirstRun(last, size, s) ==
    /\ pc = "idle"
    /\ Invoke(last, size, s, NoPrev)

\* The migration is invoked again after a run that returned Ok (completed
\* or cancelled): same constant chunk size (line 34), the same or a larger
\* last miniblock.
Resume(last, s) ==
    /\ Terminal
    /\ result.kind = "Ok"
    /\ last >= last_miniblock
    /\ Invoke(last, chunk_size, s, Summary)

\* Lines 52-54: the loop condition and the window of this iteration.
LoopHead ==
    /\ pc = "loop"
    /\ IF LoopCondition(chunk_start, last_miniblock)
       THEN LET e == ChunkEnd(chunk_start, chunk_size, last_miniblock)
            IN  IF e = NoValue
                THEN /\ pc' = "panicked"
                     /\ result' = ErrResult("Panic", <<>>)
                     /\ UNCHANGED <<chunk_end, nAfterStop>>
                ELSE /\ pc' = "acquire"
                     /\ chunk_end' = e
                     /\ nAfterStop' = IF stop THEN Inc(nAfterStop)
                                      ELSE nAfterStop
                     /\ UNCHANGED result
       ELSE /\ pc' = "completed"
            /\ result' = CompletedOutput(events_affected)
            /\ UNCHANGED <<chunk_end, nAfterStop>>
    /\ UNCHANGED nFail
    /\ UNCHANGED <<storageVars, paramVars, countVars, stop, chunk_start,
                   is_chunk_migrated, events_affected, storage>>

\* Line 56: pool.access_storage().await succeeds.
Acquire ==
    /\ pc = "acquire"
    /\ storage' = TRUE
    /\ pc' = "probe"
    /\ UNCHANGED nFail
    /\ UNCHANGED nAfterStop
    /\ UNCHANGED <<storageVars, paramVars, countVars, stop, chunk_start,
                   chunk_end, is_chunk_migrated, events_affected, result>>

\* Line 56: pool.access_storage().await fails; `?` returns the error.
AcquireFail ==
    /\ pc = "acquire"
    /\ pc' = OnStorageError
    /\ nFail' = Inc(nFail)
    /\ result' = ErrResult("StorageError", <<>>)
    /\ UNCHANGED nAfterStop
    /\ UNCHANGED <<storageVars, paramVars, countVars, stop, chunk_start,
                   chunk_end, is_chunk_migrated, events_affected, storage>>

\* Line 57: the probe are_event_indexes_migrated(chunk) returns.
Probe ==
    /\ pc = "probe"
    /\ is_chunk_migrated' = AreEventIndexesMigrated(unmig, chunk_start, chunk_end)
    /\ pc' = AfterProbe(is_chunk_migrated')
    /\ nProbe' = Inc(nProbe)
    /\ maxEnd' = Max(maxEnd, chunk_end)
    /\ firstWindow' = IF nProbe = 0 THEN <<chunk_start, chunk_end>>
                      ELSE firstWindow
    /\ UNCHANGED nFail
    /\ UNCHANGED nAfterStop
    /\ UNCHANGED <<storageVars, paramVars, nBackfill, nSleep, nCheck, stop,
                   chunk_start, chunk_end, events_affected, storage, result>>

\* Lines 57, 95-105: the probe fails; the error gets the range as context
\* and `?` returns it, dropping the connection.
ProbeFail ==
    /\ pc = "probe"
    /\ pc' = OnStorageError
    /\ nFail' = Inc(nFail)
    /\ result' = ErrResult("StorageError", <<chunk_start, chunk_end>>)
    /\ storage' = FALSE
    /\ nProbe' = Inc(nProbe)
    /\ maxEnd' = Max(maxEnd, chunk_end)
    /\ firstWindow' = IF nProbe = 0 THEN <<chunk_start, chunk_end>>
                      ELSE firstWindow
    /\ UNCHANGED nAfterStop
    /\ UNCHANGED <<storageVars, paramVars, nBackfill, nSleep, nCheck, stop,
                   chunk_start, chunk_end, is_chunk_migrated, events_affected>>

\* Lines 64-72: assign_indexes_without_eth_transfer(chunk) succeeds; the
\* whole window is migrated at once and its row count is accumulated.
Backfill ==
    /\ pc = "backfill"
    /\ unmig' = AssignIndexes(unmig, chunk_start, chunk_end)
    /\ events_affected' =
           Accumulate(events_affected,
                      RowsAffected(unmig, chunk_start, chunk_end))
    /\ nBackfill' = Inc(nBackfill)
    /\ maxEnd' = Max(maxEnd, chunk_end)
    /\ pc' = "drop"
    /\ UNCHANGED nFail
    /\ UNCHANGED nAfterStop
    /\ UNCHANGED <<numBlocks, paramVars, nProbe, nSleep, nCheck,
                   firstWindow, stop, chunk_start, chunk_end,
                   is_chunk_migrated, storage, result>>

\* Lines 64-70: the backfill fails and leaves the window as it was; the
\* error gets the chunk as context and `?` returns it.
BackfillFail ==
    /\ pc = "backfill"
    /\ pc' = OnStorageError
    /\ nFail' = Inc(nFail)
    /\ result' = ErrResult("StorageError", <<chunk_start, chunk_end>>)
    /\ storage' = FALSE
    /\ nBackfill' = Inc(nBackfill)
    /\ maxEnd' = Max(maxEnd, chunk_end)
    /\ UNCHANGED nAfterStop
    /\ UNCHANGED <<storageVars, paramVars, nProbe, nSleep, nCheck,
                   firstWindow, stop, chunk_start, chunk_end,
                   is_chunk_migrated, events_affected>>

\* Line 74: drop(storage).
DropStorage ==
    /\ pc = "drop"
    /\ storage' = ConnectionAfterDrop
    /\ pc' = "check"
    /\ UNCHANGED nFail
    /\ UNCHANGED nAfterStop
    /\ UNCHANGED <<storageVars, paramVars, countVars, stop, chunk_start,
                   chunk_end, is_chunk_migrated, events_affected, result>>

\* Lines 76-82: read the stop signal; return if it is set, otherwise move
\* to the next window.
CheckStop ==
    /\ pc = "check"
    /\ nCheck' = Inc(nCheck)
    /\ IF StopRequested(stop)
       THEN /\ pc' = "cancelled"
            /\ result' = CancelledOutput(events_affected)
            /\ UNCHANGED chunk_start
       ELSE LET n == NextChunkStart(chunk_end)
            IN  IF n = NoValue
                THEN /\ pc' = "panicked"
                     /\ result' = ErrResult("Panic", <<>>)
                     /\ UNCHANGED chunk_start
                ELSE /\ chunk_start' = n
                     /\ pc' = AfterAdvance(is_chunk_migrated)
                     /\ UNCHANGED result
    /\ UNCHANGED nFail
    /\ UNCHANGED nAfterStop
    /\ UNCHANGED <<storageVars, paramVars, nProbe, nBackfill, nSleep, maxEnd,
                   firstWindow, stop, chunk_end, is_chunk_migrated,
                   events_affected, storage>>

\* Line 83: tokio::time::sleep(sleep_interval).await returns.
Sleep ==
    /\ pc = "sleep"
    /\ nSleep' = Inc(nSleep)
    /\ pc' = "loop"
    /\ UNCHANGED nFail
    /\ UNCHANGED nAfterStop
    /\ UNCHANGED <<storageVars, paramVars, nProbe, nBackfill, nCheck, maxEnd,
                   firstWindow, stop, chunk_start, chunk_end,
                   is_chunk_migrated, events_affected, storage, result>>

\* The owner of the watch channel sends `true` while a run is in progress.
SetStop ==
    /\ pc \notin {"idle"} /\ ~Terminal
    /\ ~stop
    /\ stop' = TRUE
    /\ UNCHANGED nFail
    /\ UNCHANGED nAfterStop
    /\ UNCHANGED <<storageVars, paramVars, countVars, pc, chunk_start,
                   chunk_end, is_chunk_migrated, events_affected, storage,
                   result>>

\* The live write path seals a new miniblock; its events carry the indexes
\* already (store_events in the tests).
AppendBlock ==
    /\ numBlocks <= MaxId
    /\ numBlocks' = numBlocks + 1
    /\ UNCHANGED nFail
    /\ UNCHANGED nAfterStop
    /\ UNCHANGED <<unmig, paramVars, countVars, stop, pc,
                   chunk_start, chunk_end, is_chunk_migrated, events_affected,
                   storage, result>>

\* ------------------------------------------- constructions of an L2ChainId
\* chain_call holds the path and its argument; each action is the call.
\* Lines 110-130: s.parse::<L2ChainId>()
FromStr ==
    /\ chain_call.op = "from_str" /\ chain_id = NoChainId
    /\ chain_id' = ParseChainId(chain_call.text)
    /\ UNCHANGED <<migrationVars, chain_call>>

\* Lines 86-109: deserialization; line 92 fails if the serialized value is
\* no string.
Deserialize ==
    /\ chain_call.op = "deserialize" /\ chain_id = NoChainId
    /\ chain_id' = IF chain_call.is_string
                   THEN ParseChainId(chain_call.text)
                   ELSE ErrChainId
    /\ UNCHANGED <<migrationVars, chain_call>>

\* Lines 146-150: L2ChainId::from(val)
From ==
    /\ chain_call.op = "from" /\ chain_id = NoChainId
    /\ chain_id' = OkChainId(chain_call.raw)
    /\ UNCHANGED <<migrationVars, chain_call>>

\* Lines 140-144: L2ChainId::default()
Default ==
    /\ chain_call.op = "default" /\ chain_id = NoChainId
    /\ chain_id' = OkChainId(DefaultChainId)
    /\ UNCHANGED <<migrationVars, chain_call>>

\* Line 84: the field is public, L2ChainId(u) is an expression of any crate.
Construct ==
    /\ chain_call.op = "construct" /\ chain_id = NoChainId
    /\ chain_id' = OkChainId(chain_call.raw)
    /\ UNCHANGED <<migrationVars, chain_call>>

Next ==
    \/ \E last \in Ids, size \in Ids, s \in BOOLEAN : Start(last, size, s)
    \/ LoopHead
    \/ Acquire
    \/ AcquireFail
    \/ Probe
    \/ ProbeFail
    \/ Backfill
    \/ BackfillFail
    \/ DropStorage
    \/ CheckStop
    \/ Sleep
    \/ SetStop
    \/ AppendBlock

Spec == Init /\ [][Next]_vars

\* A step of the migration task itself.
RunStep ==
    \/ LoopHead
    \/ Acquire
    \/ AcquireFail
    \/ Probe
    \/ ProbeFail
    \/ Backfill
    \/ BackfillFail
    \/ DropStorage
    \/ CheckStop
    \/ Sleep

\* The same program when every storage call and every sleep returns and the
\* runtime keeps polling the task: a run that can take a step takes one.
SpecLive == Init /\ [][Next]_vars /\ WF_vars(RunStep)

\* The same program, with every run remembered by the run that resumes it.
NextResume ==
    \/ \E last \in Ids, size \in Ids, s \in BOOLEAN : FirstRun(last, size, s)
    \/ \E last \in Ids, s \in BOOLEAN : Resume(last, s)
    \/ LoopHead
    \/ Acquire
    \/ AcquireFail
    \/ Probe
    \/ ProbeFail
    \/ Backfill
    \/ BackfillFail
    \/ DropStorage
    \/ CheckStop
    \/ Sleep
    \/ SetStop
    \/ AppendBlock

SpecResume == Init /\ [][NextResume]_vars

\* (mutation of ChunkSizeOfNextRun: the next invocation uses another size)
ChunkSizeChanged(size) == IF size > 1 THEN size - 1 ELSE size + 1

\* Lines 15-21, 34: every invocation passes the same constant chunk size.
ChunkSizeOfNextRun(size) == size

\* The first run of the node's migration: nothing of [0, last] is migrated.
FirstRunUnmigrated(last, size, s) ==
    /\ Window(0, last) \subseteq unmig
    /\ FirstRun(last, size, s)

\* The node restarts the migration after a run that ended in any way, with
\* the same last miniblock and the constant chunk size.
Restart(s) ==
    /\ Terminal
    /\ Invoke(last_miniblock, ChunkSizeOfNextRun(chunk_size), s, NoPrev)

\* The program as the node runs it: a storage without indexes at first, and
\* one migration restarted with constant arguments.
NextConst ==
    \/ \E last \in Ids, size \in Ids, s \in BOOLEAN :
            FirstRunUnmigrated(last, size, s)
    \/ \E s \in BOOLEAN : Restart(s)
    \/ RunStep
    \/ SetStop
    \/ AppendBlock

SpecConst == Init /\ [][NextConst]_vars

\* The constructions of an L2ChainId, which touch no storage: the call is
\* drawn from the strings and the raw values, and then made.
InitChainId ==
    /\ InitMigration
    /\ numBlocks = 0
    /\ overflow_policy = "fail"
    /\ \/ \E n \in 1..MaxLen : \E s \in StringsOfLength(n) :
                \/ chain_call = Call("from_str", TRUE, s, NoValue)
                \/ chain_call = Call("deserialize", TRUE, s, NoValue)
       \/ chain_call = Call("deserialize", FALSE, <<>>, NoValue)
       \/ \E val \in RawValues :
                \/ chain_call = Call("from", FALSE, <<>>, val)
                \/ chain_call = Call("construct", FALSE, <<>>, val)
       \/ chain_call = Call("default", FALSE, <<>>, NoValue)
    /\ chain_id = NoChainId

NextChainId ==
    \/ FromStr
    \/ Deserialize
    \/ From
    \/ Default
    \/ Construct

SpecChainId == InitChainId /\ [][NextChainId]_vars

TypeOK ==
    /\ numBlocks \in 0..(MaxId + 1)
    /\ unmig \subseteq Ids
    /\ chunk_start \in Ids /\ chunk_end \in Ids
    /\ events_affected \in Nat

\* ------------------------------------------------------------------ claims
\* The blocks of [0, last_miniblock] that still lack the indexes.
Pending == Window(0, last_miniblock) \cap unmig

\* The blocks this run has migrated so far.
MigratedByRun == startUnmig \ unmig

\* The first window of a run.
FirstWindow == <<0, Min(last_miniblock, chunk_size - 1)>>

\* C1: whatever the storage looked like when the run started, a run that
\* returns through the end of the loop (it did not observe the stop signal)
\* leaves every block of [0, last_miniblock] migrated.
C1_CompletedRunMigratesAll ==
    pc = "completed" => Pending = {}

\* A completed run that started from a storage with a migrated block between
\* two unmigrated ones.
C1_Witness ==
    /\ pc = "completed"
    /\ chunk_size = 2
    /\ last_miniblock = 2
    /\ startUnmig = {0, 2}
    /\ nBackfill = 2

\* C2: a run that follows a completed run over the same last_miniblock
\* never calls the backfill and leaves the storage as it found it; it does
\* not panic, and when it returns without a storage failure it returns Ok
\* with events_affected = 0.
C2_SecondRunAffectsNothing ==
    (prev.outcome = "Completed" /\ prev.last_miniblock = last_miniblock)
        => /\ nBackfill = 0
           /\ unmig = startUnmig
           /\ pc \notin {"backfill", "sleep", "panicked", "rejected"}
           /\ pc \in {"completed", "cancelled"} => result = OkResult(0)

\* The second run has completed after a first run that did migrate blocks
\* in more than one window.
C2_Witness ==
    /\ pc = "completed"
    /\ prev.outcome = "Completed"
    /\ prev.last_miniblock = last_miniblock
    /\ prev.events_affected = 3 * RowsPerBlock
    /\ chunk_size = 2
    /\ nProbe = 2

\* C3: a run that started with the stop signal set, followed by a run with
\* the same last_miniblock and chunk_size whose signal is not set: the two
\* counts add up to the rows that lacked indexes before the first run (the
\* count of one uninterrupted run, see C7), and all of [0, last_miniblock]
\* is migrated in the end.
C3_StopAndResumeAddUp ==
    (/\ pc = "completed"
     /\ ~stopAtStart
     /\ prev.outcome = "Cancelled"
     /\ prev.stopAtStart
     /\ prev.last_miniblock = last_miniblock
     /\ prev.chunk_size = chunk_size)
        => /\ prev.events_affected + result.events_affected = prev.pending
           /\ Pending = {}

\* Both runs have migrated something.
C3_Witness ==
    /\ pc = "completed"
    /\ ~stopAtStart
    /\ prev.outcome = "Cancelled"
    /\ prev.stopAtStart
    /\ prev.last_miniblock = last_miniblock
    /\ prev.chunk_size = chunk_size
    /\ last_miniblock = 2
    /\ chunk_size = 1
    /\ prev.events_affected = RowsPerBlock
    /\ result.events_affected = 2 * RowsPerBlock

\* C4: a run started with the stop signal set handles the first window
\* [0, min(last_miniblock, chunk_size - 1)] and nothing else: one probe, a
\* backfill exactly when that window had an unmigrated block, no sleep, and
\* it returns Ok with the rows of that window.
C4_StopAtStartOneWindow ==
    (stopAtStart /\ chunk_size > 0)
        => /\ nProbe <= 1 /\ nBackfill <= 1 /\ nSleep = 0 /\ nCheck <= 1
           /\ nProbe = 1 => firstWindow = FirstWindow
           /\ maxEnd <= FirstWindow[2]
           /\ MigratedByRun \subseteq Window(0, FirstWindow[2])
           /\ pc \notin {"completed", "sleep", "panicked"}
           /\ pc = "cancelled" =>
                /\ nProbe = 1 /\ nCheck = 1
                /\ nBackfill = 1 <=> Window(0, FirstWindow[2]) \cap startUnmig # {}
                /\ result = OkResult(RowsAffected(startUnmig, 0, FirstWindow[2]))
                /\ unmig = AssignIndexes(startUnmig, 0, FirstWindow[2])

\* Such a run has returned after migrating its first window while later
\* blocks of the range still lack the indexes.
C4_Witness ==
    /\ stopAtStart
    /\ pc = "cancelled"
    /\ chunk_size = 2
    /\ last_miniblock = 3
    /\ startUnmig = {0, 1, 2, 3}
    /\ result.events_affected = 2 * RowsPerBlock
    /\ unmig = {2, 3}

\* C5: every window handed to the probe or to the backfill ends at or below
\* last_miniblock, and the blocks above last_miniblock are as they were when
\* the run started.
C5_NothingAboveLastMiniblock ==
    /\ maxEnd <= last_miniblock
    /\ pc \in {"acquire", "probe", "backfill", "drop", "check"}
           => chunk_end <= last_miniblock
    /\ MigratedByRun \subseteq Window(0, last_miniblock)

\* A run repeated with the same, now stale, last_miniblock has completed;
\* a block was appended above last_miniblock while the earlier run was in
\* progress and an unmigrated block above it is still unmigrated.
C5_Witness ==
    /\ pc = "completed"
    /\ prev.outcome = "Cancelled"
    /\ prev.last_miniblock = last_miniblock
    /\ last_miniblock = 1
    /\ prev.blocks = 3
    /\ numBlocks = 4
    /\ 2 \in unmig
    /\ nBackfill = 1

\* C6: a run cancelled by a signal set from the start, then resumed with a
\* last_miniblock that is a block appended since: the resumed run counts the
\* rows of the old blocks that still lacked the indexes and nothing for the
\* appended ones, and all of [0, last_miniblock] is migrated when it returns.
C6_ResumeWithAppendedBlock ==
    (/\ pc = "completed"
     /\ prev.outcome = "Cancelled"
     /\ prev.stopAtStart
     /\ last_miniblock > prev.last_miniblock
     /\ last_miniblock >= prev.blocks)
        => /\ result.events_affected =
                 RowsPerBlock * Cardinality(startUnmig \cap Window(0, prev.blocks - 1))
           /\ Pending = {}
           /\ \A b \in Window(prev.blocks, MaxId) : b \notin startUnmig

\* The appended block 3 shares the window [2, 3] with the unmigrated block 2.
C6_Witness ==
    /\ pc = "completed"
    /\ prev.outcome = "Cancelled"
    /\ prev.stopAtStart
    /\ prev.last_miniblock = 2
    /\ prev.blocks = 3
    /\ prev.events_affected = 2 * RowsPerBlock
    /\ last_miniblock = 3
    /\ chunk_size = 2
    /\ startUnmig = {2}
    /\ result.events_affected = RowsPerBlock

\* C7: a run that completes returns the number of rows of the blocks of
\* [0, last_miniblock] that lacked the indexes when it started, a number in
\* which chunk_size does not occur.
C7_CountIndependentOfChunkSize ==
    pc = "completed"
        => result = OkResult(PendingRows(startUnmig, last_miniblock))

\* Three unmigrated blocks done in two windows.
C7_Witness ==
    /\ pc = "completed"
    /\ last_miniblock = 2
    /\ chunk_size = 2
    /\ startUnmig = {0, 1, 2}
    /\ result.events_affected = 3 * RowsPerBlock

\* C8: a run with chunk_size = 0 is rejected with an error before anything
\* else: no connection, no probe, no backfill, no read of the signal, and the
\* storage is as it was.
C8_ZeroChunkSizeRejected ==
    (pc # "idle" /\ chunk_size = 0)
        => /\ pc = "rejected"
           /\ result = ErrResult("InvalidConfig", <<>>)
           /\ ~storage
           /\ nProbe = 0 /\ nBackfill = 0 /\ nCheck = 0 /\ nSleep = 0
           /\ nFail = 0
           /\ unmig = startUnmig

\* A rejected run over a storage with unmigrated blocks.
C8_Witness ==
    /\ pc = "rejected"
    /\ chunk_size = 0
    /\ last_miniblock = 2
    /\ unmig = {0, 1, 2}

\* C9: a run that returns because it saw the stop signal returns Ok, and
\* its count is the number of rows of the blocks it has migrated.
C9_CancelledKeepsCount ==
    pc = "cancelled"
        => /\ result.kind = "Ok"
           /\ result.events_affected = RowsPerBlock * Cardinality(MigratedByRun)
           /\ result.events_affected = events_affected

\* The signal came after two windows were migrated, with work left.
C9_Witness ==
    /\ pc = "cancelled"
    /\ ~stopAtStart
    /\ nBackfill = 2
    /\ result.events_affected = 2 * RowsPerBlock
    /\ Pending # {}

\* The state of a run in which a storage operation has failed.
FailedState ==
    nFail > 0
        => /\ pc = "failed"
           /\ nFail = 1
           /\ result.kind = "StorageError"
           /\ result.events_affected = NoValue
           /\ ~storage

\* What a run can change by calling the storage, reading the signal,
\* sleeping or returning.
runVars == <<unmig, pc, chunk_start, chunk_end, is_chunk_migrated,
             events_affected, storage, result, nFail, nProbe, nBackfill,
             nSleep, nCheck, maxEnd, firstWindow>>

\* C10: once a storage operation (connection, probe or backfill) has failed
\* the run is over: the caller has an error without a count, the operation
\* is not tried again, and until another run is invoked there is no further
\* probe, backfill, read of the signal or sleep.
C10_FailedRunIsOver ==
    /\ []FailedState
    /\ [][nFail > 0 => (nFail' = 0 \/ UNCHANGED runVars)]_vars

\* A backfill has failed after an earlier window was migrated.
C10_Witness ==
    /\ pc = "failed"
    /\ nProbe = 2
    /\ nBackfill = 2
    /\ events_affected = RowsPerBlock
    /\ result.window = <<1, 1>>

\* C11: every storage error a run returns names the window
\* [chunk_start, chunk_end] that was being processed, for each of the three
\* storage operations of an iteration (connection, probe, backfill).
C11_ErrorsNameTheWindow ==
    pc = "failed" => result.window = <<chunk_start, chunk_end>>

\* C12: for every last_miniblock, the largest value of the type included,
\* and every chunk_size > 0, a run that is in its loop eventually ends:
\* completed, cancelled or failed (a panic of the task is counted as an end
\* here as well); it does not loop forever.
C12_RunTerminates ==
    (pc = "loop" /\ chunk_size > 0)
        ~> (pc \in {"completed", "cancelled", "failed", "panicked"})

\* C13: the chunk-boundary arithmetic never leaves the range of the type:
\* in every iteration chunk_start + chunk_size - 1 fits, no computation
\* fails, chunk_end is exactly min(last_miniblock, chunk_start + chunk_size
\* - 1), and the step to the next window sets chunk_start to chunk_end + 1,
\* strictly above the previous chunk_start.
InWindow == pc \in {"acquire", "probe", "backfill", "drop", "check"}

C13_ArithmeticInRange ==
    /\ [](/\ pc # "panicked"
          /\ InWindow =>
                /\ chunk_start + chunk_size - 1 <= MaxId
                /\ chunk_end = Min(last_miniblock,
                                   chunk_start + chunk_size - 1))
    /\ [][(pc = "check" /\ pc' \in {"loop", "sleep"}) =>
                /\ chunk_start' = chunk_end + 1
                /\ chunk_start' > chunk_start]_vars

\* ------------------------------------------------------------------ C14
\* The digits of n in radix r, most significant first.
RECURSIVE Digits(_, _)
Digits(n, r) ==
    IF n < r THEN <<n>> ELSE Append(Digits(n \div r, r), n % r)

DecString(n) == Digits(n, 10)
HexString(n) == Digits(n, 16)

Parsed ==
    /\ chain_call.op \in {"from_str", "deserialize"}
    /\ chain_call.is_string
    /\ chain_id # NoChainId

\* C14: parsing the decimal string of MAX + 1 returns an error to the
\* caller; parsing the decimal string of MAX succeeds; parsing the
\* hexadecimal string of MAX succeeds with the same identifier.
C14_ValidationBound ==
    Parsed =>
        /\ chain_call.text = DecString(L2ChainIdMax + 1) =>
                chain_id = ErrChainId
        /\ chain_call.text = DecString(L2ChainIdMax) =>
                chain_id = OkChainId(L2ChainIdMax)
        /\ chain_call.text = HexString(L2ChainIdMax) =>
                chain_id = OkChainId(L2ChainIdMax)

\* C15: every L2ChainId that exists is at most MAX, whichever path
\* constructed it: from_str, deserialize, From<u64>, default, or the tuple
\* constructor.
C15_ChainIdAtMostMax ==
    chain_id.kind = "Ok" => chain_id.value <= L2ChainIdMax

\* C16: within one run the windows are handled one after the other in
\* increasing order: every window handed to the storage is non-empty and
\* has at most chunk_size blocks; the first probed window starts at 0 and
\* each next one at the previous chunk_end + 1, so a window is probed once;
\* the backfill of a window is entered only from its probe, only when the
\* probe said "not migrated", and is left towards the release of the
\* connection; a completed run has covered [0, last_miniblock].
C16_WindowsSequential ==
    /\ [](/\ InWindow =>
                /\ chunk_start <= chunk_end
                /\ chunk_end - chunk_start < chunk_size
          /\ pc = "backfill" => ~is_chunk_migrated
          /\ pc = "completed" => maxEnd = last_miniblock)
    /\ [][/\ (pc = "probe" /\ pc' \in {"backfill", "drop"}) =>
                chunk_start = maxEnd + 1
          /\ pc' = "backfill" => pc \in {"probe", "backfill"}
          /\ (pc = "backfill" /\ pc' # "backfill") =>
                pc' \in {"drop", "failed"}]_vars

\* ------------------------------------------------------------------ C17
\* In the storage u the migrated blocks of [0, last] form a prefix: no
\* migrated block lies above an unmigrated one.
IsPrefix(u, last) ==
    \A a, b \in Window(0, last) : (a < b /\ a \in u) => b \in u

\* C17: if the migrated blocks of [0, last_miniblock] formed a prefix when
\* the run started, they form a prefix in every state of the run, the
\* states after a cancellation or a storage failure included.
C17_MigratedPrefix ==
    (pc # "idle" /\ IsPrefix(startUnmig, last_miniblock))
        => IsPrefix(unmig, last_miniblock)

\* A run over a storage with a non-empty migrated prefix fails after it has
\* migrated a part of the rest.
C17_Witness ==
    /\ pc = "failed"
    /\ IsPrefix(startUnmig, last_miniblock)
    /\ 0 \notin startUnmig
    /\ nBackfill >= 1
    /\ unmig # startUnmig
    /\ Window(0, last_miniblock) \cap unmig # {}

\* C18: with chunk_size and last_miniblock the same in all runs and a
\* storage that had no migrated block in [0, last_miniblock] at first,
\* every window that a run probes is fully migrated or fully unmigrated,
\* whatever cancelled, failed and restarted runs came before.
C18_NoPartialWindow ==
    pc = "probe" =>
        \/ Window(chunk_start, chunk_end) \cap unmig = {}
        \/ Window(chunk_start, chunk_end) \subseteq unmig

\* A restarted run, after an earlier run has migrated a part of the range,
\* probes a window of two blocks that are both unmigrated.
C18_Witness ==
    /\ pc = "probe"
    /\ ~(Window(0, last_miniblock) \subseteq startUnmig)
    /\ chunk_start > 0
    /\ Cardinality(Window(chunk_start, chunk_end)) >= 2
    /\ Window(chunk_start, chunk_end) \subseteq unmig

\* C19: an iteration sleeps if and only if it invoked the backfill and then
\* read the stop signal as not set.  The counters of the run say it: a
\* sleep follows each backfill of an iteration that went on, and nothing
\* else; the step from the stop check goes to the sleep exactly when the
\* window was not migrated before (so the backfill ran), and to the next
\* window directly otherwise; the sleep is entered only from a stop check
\* that read "not set".  A run over a range that was fully migrated when it
\* started does not sleep.
C19_SleepIffBackfill ==
    /\ [](/\ nSleep <= nBackfill
          /\ pc = "loop" => nSleep = nBackfill
          /\ pc = "sleep" => nBackfill = Inc(nSleep)
          /\ (pc = "check" /\ is_chunk_migrated) => nBackfill = nSleep
          /\ (pc = "check" /\ ~is_chunk_migrated) => nBackfill = Inc(nSleep)
          /\ (pc # "idle" /\ Window(0, last_miniblock) \cap startUnmig = {})
                => (nSleep = 0 /\ pc # "sleep"))
    /\ [][/\ (pc = "check" /\ pc' \in {"loop", "sleep"}) =>
                (pc' = "sleep" <=> ~is_chunk_migrated)
          /\ (pc # "sleep" /\ pc' = "sleep") => (pc = "check" /\ ~stop)]_vars

\* A completed run of three windows that skipped two and migrated one has
\* slept once.
C19_Witness ==
    /\ pc = "completed"
    /\ nProbe = 3
    /\ nBackfill = 1
    /\ nSleep = 1

\* C20: the task holds at most one storage connection: it takes one only
\* when it holds none, at the start of each window, and gives it back
\* before the stop check.  It holds none while it sleeps, reads the stop
\* signal, is between windows, or has returned; it holds one during the
\* probe and the backfill of a window.
C20_OneConnectionPerWindow ==
    /\ [](/\ pc \in {"loop", "acquire", "check", "sleep", "completed",
                     "cancelled", "failed"} => ~storage
          /\ pc \in {"probe", "backfill", "drop"} => storage)
    /\ [][/\ (~storage /\ storage') => (pc = "acquire" /\ pc' = "probe")
          /\ (pc = "acquire" /\ pc' = "probe") => (~storage /\ storage')
          /\ (pc # "check" /\ pc' = "check") => (storage /\ ~storage')]_vars

\* The task sleeps after the backfill of its second window or a later one,
\* holding no connection.
C20_Witness ==
    /\ pc = "sleep"
    /\ ~storage
    /\ nProbe >= 2
    /\ nBackfill >= 1

\* ------------------------------------------------------------------ C21
\* The stop signal is read only at a chunk boundary: once per iteration, at
\* the stop check, after the window's storage work and with the connection
\* given back; a read that finds the signal set ends the run as cancelled,
\* and a run is cancelled in no other way.
StopReadAtBoundaries ==
    /\ [](/\ pc = "check" => nProbe = Inc(nCheck)
          /\ pc \in {"loop", "sleep"} => nCheck = nProbe)
    /\ [][/\ (nCheck' # nCheck /\ nCheck' # 0) => (pc = "check" /\ ~storage)
          /\ (pc = "check" /\ stop /\ pc' # "check") => pc' = "cancelled"
          /\ (pc # "cancelled" /\ pc' = "cancelled") =>
                (pc = "check" /\ stop)]_vars

\* C21 (as stated): the signal is read only at chunk boundaries, and once it
\* has been set the run finishes the window in flight and returns: a run
\* that has finished a window begins no further window while the signal is
\* set.
C21_NoChunkAfterStop ==
    /\ StopReadAtBoundaries
    /\ [][(pc = "loop" /\ pc' = "acquire" /\ nCheck >= 1) => ~stop]_vars

\* C21 (amended): the signal is read only at chunk boundaries, and once it
\* has been set the run begins at most one window more: the window in
\* flight is finished, or, when the signal was set between a stop check and
\* the next window (during the sleep, or before the run), that next window
\* is begun and finished; the stop check that follows returns.
C21_AtMostOneChunkAfterStop ==
    /\ StopReadAtBoundaries
    /\ [](/\ nAfterStop <= 1
          /\ nAfterStop = 1 =>
                pc \in {"acquire", "probe", "backfill", "drop", "check",
                        "cancelled", "failed"})

\* A run whose signal was set after a stop check, while no window was in
\* flight, has handled one window more and returned as cancelled.
C21_Witness ==
    /\ pc = "cancelled"
    /\ ~stopAtStart
    /\ nAfterStop = 1
    /\ nProbe >= 2
====
